---- MODULE Spec2Model ----
(***************************************************************************)
(* Campus registrar (assignment.py): the three in-memory collections, the  *)
(* files they are saved to and loaded from, and the menu handlers that     *)
(* change them.  One process runs at a time; a new process starts with     *)
(* empty collections and loads whatever the previous processes left on     *)
(* disk.                                                                   *)
(*                                                                         *)
(* Representation                                                          *)
(*   students     insertion-ordered dict: a sequence of records with       *)
(*                distinct ids                                             *)
(*   courses      dict: a function from course codes to records; the       *)
(*                field "shape" is the Python type of c["enrolled"]        *)
(*                ("set" or "list"), "enrolled" its members                *)
(*   enrollments  list of rows                                             *)
(*   floats (gpa, grade) are drawn from small sets of integers             *)
(*   text of a number n in a csv file is <<n>>, the empty string is <<>>   *)
(***************************************************************************)
EXTENDS Integers, Sequences, FiniteSets, TLC

VARIABLES
    pc,            \* "menu": main's loop waits for a choice; "terminated"
    students,      \* line 14
    courses,       \* line 15
    enrollments,   \* line 16
    fStudents,     \* students.csv
    fBackup,       \* the students_<timestamp>.csv written last
    fCourses,      \* courses.json
    fEnrollments,  \* enrollments.csv
    logLines,      \* number of lines of app.log
    logLast,       \* the last line of app.log
    faults,        \* writes that have failed so far
    sessionFresh,  \* this process started with no enrollment row and no enrolled id
    out,           \* what the last handler printed, or the exception that ended it
    shown          \* the list top of the last "Top N students" call, in print order

vars == <<pc, students, courses, enrollments, fStudents, fBackup, fCourses,
          fEnrollments, logLines, logLast, faults, sessionFresh, out, shown>>

mem == <<students, courses, enrollments>>
disk == <<fStudents, fBackup, fCourses, fEnrollments>>
log == <<logLines, logLast>>

----------------------------------------------------------------------------
(* Bounds and input sets *)

MaxLog == 5          \* log records written over all processes
MaxFaults == 1       \* writes that fail over all processes

StudentIds == {1, 2}
Names == {"Ann"}
Years == {1}
Gpas == {35}                     \* tenths: 3.5
CourseCodes == {"A", "B"}
Titles == {"T"}
Credits == {3}
Capacities == {-1, 1, 2}         \* int(input()) accepts any integer
PrereqSets == {{}, {"A"}}        \* B after A, or A after itself
Grades == {0, 90}

\* wider inputs for one process that only adds and enrolls
SessionGpas == {35, 39}        \* tenths: 3.5 and 3.9
SessionCapacities == {1, 2}
SessionPrereqSets == SUBSET CourseCodes

\* inputs for the "Top N students" report: three students, ties possible
TopIds == {1, 2, 3}
TopNs == -1 .. 4

None == -1           \* Python's None in a grade field (never a member of Grades)

----------------------------------------------------------------------------
(* Text of csv fields *)

Str(n) == <<n>>
EmptyStr == <<>>
Num(t) == t[1]       \* int(t), float(t) of the text of a number

NoFile == [exists |-> FALSE, rows |-> <<>>]
NoJson == [exists |-> FALSE, valid |-> FALSE, data |-> <<>>]
EmptiedCsv == [exists |-> TRUE, rows |-> <<>>]
EmptiedJson == [exists |-> TRUE, valid |-> FALSE, data |-> <<>>]

----------------------------------------------------------------------------
(* Lookups *)

StudentKeys(ss) == {ss[i].id : i \in DOMAIN ss}

HasStudent(sid) == sid \in StudentKeys(students)

HasCourse(code) == code \in DOMAIN courses

RowsOf(rows, sid, code) ==
    {i \in DOMAIN rows : rows[i].student_id = sid /\ rows[i].course_code = code}

RowsOfCourse(rows, code) == {i \in DOMAIN rows : rows[i].course_code = code}

\* students[key] = rec on an insertion-ordered dict
DictPut(ss, rec) ==
    IF rec.id \in StudentKeys(ss)
    THEN [i \in DOMAIN ss |-> IF ss[i].id = rec.id THEN rec ELSE ss[i]]
    ELSE Append(ss, rec)

\* a line of app.log, without its timestamp: the action and the ids its text
\* names.  prev is not in the file: for "Updated grade" it keeps the grade the
\* row had before the call
LogLine(op, sid, code) == [op |-> op, sid |-> sid, code |-> code, prev |-> None]

----------------------------------------------------------------------------
(* File I/O: what the save functions write and what the load functions read *)

StudentRow(s) ==
    [student_id |-> Str(s.id), full_name |-> s.name,
     year |-> Str(s.year), gpa |-> Str(s.gpa)]

\* lines 75-84: header and one row per student, in dict order
StudentsCsv(ss) == [exists |-> TRUE, rows |-> [i \in DOMAIN ss |-> StudentRow(ss[i])]]

\* lines 32-39: a row whose numbers do not convert is skipped
StudentRowParses(r) == r.student_id # EmptyStr /\ r.year # EmptyStr /\ r.gpa # EmptyStr

RECURSIVE ReadStudentRows(_, _)
ReadStudentRows(rows, acc) ==
    IF rows = <<>> THEN acc
    ELSE LET r == Head(rows)
             next == IF StudentRowParses(r)
                     THEN DictPut(acc, [id |-> Num(r.student_id), name |-> r.full_name,
                                        year |-> Num(r.year), gpa |-> Num(r.gpa)])
                     ELSE acc
         IN ReadStudentRows(Tail(rows), next)

\* load_students, into the empty dict of a new process
LoadStudents(file) == IF ~file.exists THEN <<>> ELSE ReadStudentRows(file.rows, <<>>)

\* the lists written are not turned back into sets
ShapeAllLeavesLists(cs, shape) == [c \in DOMAIN cs |-> [cs[c] EXCEPT !.shape = "list"]]

\* lines 89-91 and 94-96: every course's enrolled converted to one Python type
ShapeAll(cs, shape) == [c \in DOMAIN cs |-> [cs[c] EXCEPT !.shape = shape]]

\* line 93: json.dump of the courses, enrolled as an array
CoursesJson(cs) ==
    [exists |-> TRUE, valid |-> TRUE,
     data |-> [c \in DOMAIN cs |->
                 [title |-> cs[c].title, credits |-> cs[c].credits,
                  capacity |-> cs[c].capacity, prereqs |-> cs[c].prereqs,
                  enrolled |-> cs[c].enrolled]]]

\* A JSON value that is no object is the record [json |-> its kind]; an object
\* is the record of its members
JsonArray == [json |-> "array"]
JsonNumber == [json |-> "number"]
IsObject(v) == "json" \notin DOMAIN v

\* the order in which a document lists its keys
KeyOrder == <<"A", "B">>
KeyPlace(c) == CHOOSE i \in DOMAIN KeyOrder : KeyOrder[i] = c

\* what lines 50-51 leave of one value of the mapping: json.load gives every
\* array as a list, setdefault leaves a present "enrolled" as it is and gives
\* an object without one an empty set; the loop's exception comes at the first
\* value that is no object, and the values after it are not reached
LoadedEntry(v, reached) ==
    IF ~IsObject(v) THEN v
    ELSE IF "enrolled" \in DOMAIN v THEN v @@ [shape |-> "list"]
    ELSE IF reached THEN v @@ [enrolled |-> {}, shape |-> "set"]
    ELSE v

\* load_courses, into the empty dict of a new process: line 49 assigns what
\* json.load returns, whatever it is, before lines 50-51 look at it, and line
\* 52 swallows their exception
LoadCourses(file) ==
    IF ~file.exists \/ ~file.valid THEN <<>>
    ELSE IF ~IsObject(file.data) THEN file.data
    ELSE LET bad == {KeyPlace(c) : c \in {d \in DOMAIN file.data : ~IsObject(file.data[d])}}
         IN [c \in DOMAIN file.data |->
                LoadedEntry(file.data[c], \A b \in bad : KeyPlace(c) < b)]

\* the members of every enrolled there is in a loaded collection
LoadedIds(cs) ==
    IF ~IsObject(cs) THEN {}
    ELSE UNION {cs[c].enrolled :
                   c \in {d \in DOMAIN cs : IsObject(cs[d]) /\ "enrolled" \in DOMAIN cs[d]}}

\* line 103: csv writes None as the empty string
GradeText(g) == IF g = None THEN EmptyStr ELSE Str(g)

EnrollmentRowText(e) ==
    [student_id |-> Str(e.student_id), course_code |-> e.course_code,
     grade |-> GradeText(e.grade)]

\* the header written and no row
EnrollmentsCsvHeaderOnly(rows) == [exists |-> TRUE, rows |-> <<>>]

\* save_enrollments
EnrollmentsCsv(rows) ==
    [exists |-> TRUE, rows |-> [i \in DOMAIN rows |-> EnrollmentRowText(rows[i])]]

\* a grade 0 read as if it were absent
LoadGradeFalsyZero(t) == IF t # EmptyStr /\ Num(t) # 0 THEN Num(t) ELSE None

\* line 67: float(row["grade"]) if row["grade"] else None
LoadGrade(t) == IF t # EmptyStr THEN Num(t) ELSE None

EnrollmentRowParses(r) == r.student_id # EmptyStr

\* load_enrollments, into the empty list of a new process
LoadEnrollments(file) ==
    IF ~file.exists THEN <<>>
    ELSE LET ok == SelectSeq(file.rows, EnrollmentRowParses)
         IN [i \in DOMAIN ok |->
               [student_id |-> Num(ok[i].student_id),
                course_code |-> ok[i].course_code,
                grade |-> LoadGrade(ok[i].grade)]]

----------------------------------------------------------------------------
(* Initial state: a first run in a directory holding none of the files, after
   main's three loads (lines 234-236) found nothing to read *)

Init ==
    /\ pc = "menu"
    /\ students = <<>>
    /\ courses = <<>>
    /\ enrollments = <<>>
    /\ fStudents = NoFile
    /\ fBackup = NoFile
    /\ fCourses = NoJson
    /\ fEnrollments = NoFile
    /\ logLines = 0
    /\ logLast = LogLine("", 0, "")
    /\ faults = 0
    /\ sessionFresh = TRUE
    /\ out = ""
    /\ shown = <<>>

----------------------------------------------------------------------------
(* Menu handlers *)

\* log_action
LogAction(line) ==
    /\ logLines < MaxLog
    /\ logLines' = logLines + 1
    /\ logLast' = line

\* the existence test only prints: the record typed replaces the stored one
AddStudentOverwrites(sid, name, year, gpa) ==
    /\ pc = "menu"
    /\ students' = DictPut(students, [id |-> sid, name |-> name,
                                      year |-> year, gpa |-> gpa])
    /\ IF HasStudent(sid)
       THEN /\ out' = "Student already exists."
            /\ UNCHANGED log
       ELSE /\ LogAction(LogLine("Added student", sid, ""))
            /\ out' = ""
    /\ UNCHANGED <<pc, courses, enrollments, disk, faults, sessionFresh, shown>>

\* add_student
AddStudent(sid, name, year, gpa) ==
    /\ pc = "menu"
    /\ IF HasStudent(sid)
       THEN /\ out' = "Student already exists."
            /\ UNCHANGED <<students, log>>
       ELSE /\ students' = DictPut(students, [id |-> sid, name |-> name,
                                              year |-> year, gpa |-> gpa])
            /\ LogAction(LogLine("Added student", sid, ""))
            /\ out' = ""
    /\ UNCHANGED <<pc, courses, enrollments, disk, faults, sessionFresh, shown>>

\* add_course; prereqs is the list of non-blank codes typed, kept as their set
AddCourse(code, title, credits, cap, prereqs) ==
    /\ pc = "menu"
    /\ IF HasCourse(code)
       THEN /\ out' = "Course already exists."
            /\ UNCHANGED <<courses, log>>
       ELSE /\ courses' = (code :> [title |-> title, credits |-> credits,
                                    capacity |-> cap, prereqs |-> prereqs,
                                    enrolled |-> {}, shape |-> "set"]) @@ courses
            /\ LogAction(LogLine("Added course", 0, code))
            /\ out' = ""
    /\ UNCHANGED <<pc, students, enrollments, disk, faults, sessionFresh, shown>>

\* the duplicate test placed before the capacity test
EnrollOutcomeDuplicateFirst(sid, code) ==
    IF ~HasStudent(sid) \/ ~HasCourse(code) THEN "Invalid student or course."
    ELSE IF RowsOf(enrollments, sid, code) # {} THEN "Already enrolled."
    ELSE IF Cardinality(courses[code].enrolled) >= courses[code].capacity
         THEN "Course full."
    ELSE IF \E pre \in courses[code].prereqs : RowsOf(enrollments, sid, pre) = {}
         THEN "Missing prerequisite."
    ELSE IF courses[code].shape = "set" THEN "" ELSE "AttributeError"

\* the capacity test left out
EnrollOutcomeNoCapacityTest(sid, code) ==
    IF ~HasStudent(sid) \/ ~HasCourse(code) THEN "Invalid student or course."
    ELSE IF RowsOf(enrollments, sid, code) # {} THEN "Already enrolled."
    ELSE IF \E pre \in courses[code].prereqs : RowsOf(enrollments, sid, pre) = {}
         THEN "Missing prerequisite."
    ELSE IF courses[code].shape = "set" THEN "" ELSE "AttributeError"

\* the duplicate test left out
EnrollOutcomeNoDuplicateTest(sid, code) ==
    IF ~HasStudent(sid) \/ ~HasCourse(code) THEN "Invalid student or course."
    ELSE IF Cardinality(courses[code].enrolled) >= courses[code].capacity
         THEN "Course full."
    ELSE IF \E pre \in courses[code].prereqs : RowsOf(enrollments, sid, pre) = {}
         THEN "Missing prerequisite."
    ELSE IF courses[code].shape = "set" THEN "" ELSE "AttributeError"

\* the prerequisite test left out
EnrollOutcomeNoPrerequisiteTest(sid, code) ==
    IF ~HasStudent(sid) \/ ~HasCourse(code) THEN "Invalid student or course."
    ELSE IF Cardinality(courses[code].enrolled) >= courses[code].capacity
         THEN "Course full."
    ELSE IF RowsOf(enrollments, sid, code) # {} THEN "Already enrolled."
    ELSE IF courses[code].shape = "set" THEN "" ELSE "AttributeError"

\* enroll_student, lines 149-165: the checks in the order the code makes them.
\* "" is the call that prints nothing and logs; "AttributeError" is line 165 on
\* a list, which has no add
EnrollOutcome(sid, code) ==
    IF ~HasStudent(sid) \/ ~HasCourse(code) THEN "Invalid student or course."
    ELSE IF Cardinality(courses[code].enrolled) >= courses[code].capacity
         THEN "Course full."
    ELSE IF RowsOf(enrollments, sid, code) # {} THEN "Already enrolled."
    ELSE IF \E pre \in courses[code].prereqs : RowsOf(enrollments, sid, pre) = {}
         THEN "Missing prerequisite."
    ELSE IF courses[code].shape = "set" THEN "" ELSE "AttributeError"

NewRow(sid, code) == [student_id |-> sid, course_code |-> code, grade |-> None]

\* the student id not added
AddEnrolledForgets(cs, code, sid) == cs

\* line 165, on a set
AddEnrolled(cs, code, sid) == [cs EXCEPT ![code].enrolled = @ \cup {sid}]

\* enroll_student
EnrollStudent(sid, code) ==
    /\ pc = "menu"
    /\ LET r == EnrollOutcome(sid, code) IN
       /\ out' = r
       /\ IF r = ""
          THEN /\ enrollments' = Append(enrollments, NewRow(sid, code))
               /\ courses' = AddEnrolled(courses, code, sid)
               /\ LogAction(LogLine("Enrolled", sid, code))
               /\ pc' = pc
          ELSE IF r = "AttributeError"
          THEN /\ enrollments' = Append(enrollments, NewRow(sid, code))
               /\ pc' = "terminated"
               /\ UNCHANGED <<courses, log>>
          ELSE UNCHANGED <<pc, courses, enrollments, log>>
    /\ UNCHANGED <<students, disk, faults, sessionFresh, shown>>

Min(S) == CHOOSE x \in S : \A y \in S : x <= y

\* the grade put in a new row instead of the row found
WithGradeAppended(rows, i, grade) == Append(rows, [rows[i] EXCEPT !.grade = grade])

\* line 173
WithGrade(rows, i, grade) == [rows EXCEPT ![i].grade = grade]

\* log_action moved out of the loop: a log record also when no row is found
RecordGradeLogsAlways(sid, code, grade) ==
    /\ pc = "menu"
    /\ IF RowsOf(enrollments, sid, code) # {}
       THEN LET i == Min(RowsOf(enrollments, sid, code)) IN
            /\ enrollments' = WithGrade(enrollments, i, grade)
            /\ out' = ""
       ELSE /\ out' = "Enrollment not found."
            /\ UNCHANGED enrollments
    /\ LogAction(LogLine("Updated grade", sid, code))
    /\ UNCHANGED <<pc, students, courses, disk, faults, sessionFresh, shown>>

\* record_grade: the first row of the pair gets the grade
RecordGrade(sid, code, grade) ==
    /\ pc = "menu"
    /\ IF RowsOf(enrollments, sid, code) # {}
       THEN LET i == Min(RowsOf(enrollments, sid, code)) IN
            /\ enrollments' = WithGrade(enrollments, i, grade)
            /\ LogAction([LogLine("Updated grade", sid, code) EXCEPT
                             !.prev = enrollments[i].grade])
            /\ out' = ""
       ELSE /\ out' = "Enrollment not found."
            /\ UNCHANGED <<enrollments, log>>
    /\ UNCHANGED <<pc, students, courses, disk, faults, sessionFresh, shown>>

----------------------------------------------------------------------------
(* Saving.  save_all runs save_students (the write, then the backup copy),
   save_courses, save_enrollments and log_action in that order.  A write that
   raises (OSError) ends save_all there, and main, which catches nothing, with
   it.  The file of the failed write is untouched when open() raised, and empty
   when open() had truncated it before the write raised. *)

FailPoints == {"none", "students", "backup", "courses", "enrollments"}
Hows == {"untouched", "emptied"}

\* save_enrollments called before save_courses
FailStepEnrollmentsFirst(fail) ==
    CASE fail = "students" -> 1
      [] fail = "backup" -> 2
      [] fail = "enrollments" -> 3
      [] fail = "courses" -> 4
      [] OTHER -> 5

\* the place of each write in save_all: save_students (its file, then the
\* backup copy), save_courses, save_enrollments; 5 is no failure
FailStep(fail) ==
    CASE fail = "students" -> 1
      [] fail = "backup" -> 2
      [] fail = "courses" -> 3
      [] fail = "enrollments" -> 4
      [] OTHER -> 5

Failed(old, emptied, how) == IF how = "emptied" THEN emptied ELSE old

\* save_all; pc is "after" when it returns
SaveAllThen(after, fail, how) ==
    LET k == FailStep(fail) IN
    /\ pc = "menu"
    /\ IF k = 5 THEN how = "untouched" /\ faults' = faults
                ELSE faults < MaxFaults /\ faults' = faults + 1
    \* save_students, lines 75-84
    /\ fStudents' = IF k = 1 THEN Failed(fStudents, EmptiedCsv, how)
                    ELSE StudentsCsv(students)
    \* save_students, lines 85-86
    /\ fBackup' = IF k = 1 THEN fBackup
                  ELSE IF k = 2 THEN Failed(fBackup, EmptiedCsv, how)
                  ELSE StudentsCsv(students)
    \* save_courses
    /\ courses' = IF k <= 2 THEN courses
                  ELSE IF k = 3 THEN ShapeAll(courses, "list")
                  ELSE ShapeAll(courses, "set")
    /\ fCourses' = IF k <= 2 THEN fCourses
                   ELSE IF k = 3 THEN Failed(fCourses, EmptiedJson, how)
                   ELSE CoursesJson(courses)
    \* save_enrollments
    /\ fEnrollments' = IF k <= 3 THEN fEnrollments
                       ELSE IF k = 4 THEN Failed(fEnrollments, EmptiedCsv, how)
                       ELSE EnrollmentsCsv(enrollments)
    \* line 109
    /\ IF k = 5 THEN LogAction(LogLine("Saved and backed up data", 0, ""))
                ELSE UNCHANGED log
    /\ pc' = IF k = 5 THEN after ELSE "terminated"
    /\ out' = IF k = 5 THEN "" ELSE "OSError"
    /\ UNCHANGED <<students, enrollments, sessionFresh, shown>>

\* menu choice 8
SaveAll == SaveAllThen("menu", "none", "untouched")

\* menu choice 10: save_all(); break
Exit == SaveAllThen("terminated", "none", "untouched")

\* menu choice 8, a write raising
SaveAllFails(fail, how) == fail # "none" /\ SaveAllThen("menu", fail, how)

\* menu choice 10, a write raising
ExitFails(fail, how) == fail # "none" /\ SaveAllThen("terminated", fail, how)

\* int(input()) or float(input()) of text that is no number: the ValueError
\* ends main before the handler has changed anything
Abort ==
    /\ pc = "menu"
    /\ pc' = "terminated"
    /\ out' = "ValueError"
    /\ UNCHANGED <<mem, disk, log, faults, sessionFresh, shown>>

\* a new process: the module's empty collections (lines 14-16), then main's
\* three loads
Start ==
    /\ pc = "terminated"
    /\ students' = LoadStudents(fStudents)
    /\ courses' = LoadCourses(fCourses)
    /\ enrollments' = LoadEnrollments(fEnrollments)
    /\ sessionFresh' = /\ LoadEnrollments(fEnrollments) = <<>>
                       /\ LoadedIds(LoadCourses(fCourses)) = {}
    /\ pc' = "menu"
    /\ out' = ""
    /\ UNCHANGED <<disk, log, faults, shown>>

Next ==
    \/ \E sid \in StudentIds, name \in Names, year \in Years, gpa \in Gpas :
          AddStudent(sid, name, year, gpa)
    \/ \E code \in CourseCodes, title \in Titles, credits \in Credits,
          cap \in Capacities, prereqs \in PrereqSets :
          AddCourse(code, title, credits, cap, prereqs)
    \/ \E sid \in StudentIds, code \in CourseCodes : EnrollStudent(sid, code)
    \/ \E sid \in StudentIds, code \in CourseCodes, grade \in Grades :
          RecordGrade(sid, code, grade)
    \/ SaveAll
    \/ Exit
    \/ Abort
    \/ Start

\* every write succeeds
Spec == Init /\ [][Next]_vars

NextIO ==
    \/ Next
    \/ \E fail \in FailPoints, how \in Hows : SaveAllFails(fail, how)
    \/ \E fail \in FailPoints, how \in Hows : ExitFails(fail, how)

\* writes may fail
SpecIO == Init /\ [][NextIO]_vars

----------------------------------------------------------------------------
(* Files that were not written by the program *)

CourseInFile == [title |-> "T", credits |-> 3, capacity |-> 1, prereqs |-> {},
                 enrolled |-> {1}]
CourseInFileNoEnrolled == [title |-> "T", credits |-> 3, capacity |-> 1,
                           prereqs |-> {}]

Parsed(data) == [exists |-> TRUE, valid |-> TRUE, data |-> data]

\* courses.json: absent, no JSON, JSON that is no object, and objects whose
\* values are course objects, course objects without "enrolled", or numbers
CourseDocuments ==
    {NoJson, EmptiedJson, Parsed(JsonArray), Parsed(JsonNumber), Parsed(<<>>),
     Parsed([A |-> CourseInFile]),
     Parsed([A |-> CourseInFile, B |-> CourseInFile]),
     Parsed([A |-> CourseInFileNoEnrolled]),
     Parsed([A |-> JsonNumber]),
     Parsed([A |-> CourseInFile, B |-> JsonNumber]),
     Parsed([A |-> CourseInFileNoEnrolled, B |-> JsonNumber]),
     Parsed([A |-> JsonNumber, B |-> CourseInFileNoEnrolled])}

StudentFiles ==
    {NoFile, EmptiedCsv,
     StudentsCsv(<<[id |-> 1, name |-> "Ann", year |-> 1, gpa |-> 35]>>)}

EnrollmentFiles ==
    {NoFile, EnrollmentsCsv(<<>>),
     EnrollmentsCsv(<<[student_id |-> 1, course_code |-> "A", grade |-> None]>>)}

\* before the program starts, with files of any of these contents
InitFiles ==
    /\ pc = "terminated"
    /\ students = <<>>
    /\ courses = <<>>
    /\ enrollments = <<>>
    /\ fStudents \in StudentFiles
    /\ fBackup = NoFile
    /\ fCourses \in CourseDocuments
    /\ fEnrollments \in EnrollmentFiles
    /\ logLines = 0
    /\ logLast = LogLine("", 0, "")
    /\ faults = 0
    /\ sessionFresh = TRUE
    /\ out = ""
    /\ shown = <<>>

\* the program is started and loads what it finds
NextFiles == Start

SpecFiles == InitFiles /\ [][NextFiles]_vars

----------------------------------------------------------------------------
(* analytics, choice 1 *)

\* ties placed in reverse order of insertion
InsertByGpaTiesFirst(sorted, rec) ==
    LET k == Cardinality({i \in DOMAIN sorted : sorted[i].gpa > rec.gpa}) IN
    SubSeq(sorted, 1, k) \o <<rec>> \o SubSeq(sorted, k + 1, Len(sorted))

\* one step of a stable sort by descending gpa: rec goes after every record
\* whose gpa is not lower
InsertByGpa(sorted, rec) ==
    LET k == Cardinality({i \in DOMAIN sorted : sorted[i].gpa >= rec.gpa}) IN
    SubSeq(sorted, 1, k) \o <<rec>> \o SubSeq(sorted, k + 1, Len(sorted))

\* sorted(students.items(), key=gpa, reverse=True): reverse keeps the order of
\* equal keys
RECURSIVE SortedByGpa(_)
SortedByGpa(ss) ==
    IF ss = <<>> THEN <<>>
    ELSE InsertByGpa(SortedByGpa(SubSeq(ss, 1, Len(ss) - 1)), ss[Len(ss)])

\* the slice [:n] of a list: a negative n counts from the end
Slice(seq, n) ==
    IF n >= 0 THEN SubSeq(seq, 1, IF n < Len(seq) THEN n ELSE Len(seq))
    ELSE SubSeq(seq, 1, IF Len(seq) + n > 0 THEN Len(seq) + n ELSE 0)

\* lines 214-218
TopStudents(n) ==
    /\ pc = "menu"
    /\ shown' = Slice(SortedByGpa(students), n)
    /\ out' = ""
    /\ UNCHANGED <<pc, mem, disk, log, faults, sessionFresh>>

\* one process that adds students and asks for the report
NextTop ==
    \/ \E sid \in TopIds, name \in Names, year \in Years, gpa \in SessionGpas :
          AddStudent(sid, name, year, gpa)
    \/ \E n \in TopNs : TopStudents(n)

SpecTop == Init /\ [][NextTop]_vars

----------------------------------------------------------------------------
(* Specifications of one process *)

\* one process, from its first menu to its end, whose save may fail
NextRun ==
    \/ \E sid \in StudentIds, name \in Names, year \in Years, gpa \in Gpas :
          AddStudent(sid, name, year, gpa)
    \/ \E code \in CourseCodes, title \in Titles, credits \in Credits,
          cap \in Capacities, prereqs \in PrereqSets :
          AddCourse(code, title, credits, cap, prereqs)
    \/ \E sid \in StudentIds, code \in CourseCodes : EnrollStudent(sid, code)
    \/ \E sid \in StudentIds, code \in CourseCodes, grade \in Grades :
          RecordGrade(sid, code, grade)
    \/ SaveAll
    \/ Exit
    \/ \E fail \in FailPoints, how \in Hows : SaveAllFails(fail, how)

SpecRun == Init /\ [][NextRun]_vars

\* one process from its first menu to a save, with more values to type
NextSession ==
    \/ \E sid \in StudentIds, name \in Names, year \in Years, gpa \in SessionGpas :
          AddStudent(sid, name, year, gpa)
    \/ \E code \in CourseCodes, title \in Titles, credits \in Credits,
          cap \in SessionCapacities, prereqs \in SessionPrereqSets :
          AddCourse(code, title, credits, cap, prereqs)
    \/ \E sid \in StudentIds, code \in CourseCodes : EnrollStudent(sid, code)
    \/ SaveAll

SpecSession == Init /\ [][NextSession]_vars

----------------------------------------------------------------------------
(* The conditions of an enroll(sid, code) call, as the specification words
   them, on the state before the call *)

Unknown(sid, code) == sid \notin StudentKeys(students) \/ code \notin DOMAIN courses

AtCapacity(code) == Cardinality(courses[code].enrolled) >= courses[code].capacity

HasRow(sid, code) ==
    \E i \in DOMAIN enrollments :
        enrollments[i].student_id = sid /\ enrollments[i].course_code = code

LacksPrerequisite(sid, code) ==
    \E pre \in courses[code].prereqs : ~HasRow(sid, pre)

Rejected(sid, code) ==
    \/ Unknown(sid, code)
    \/ AtCapacity(code)
    \/ HasRow(sid, code)
    \/ LacksPrerequisite(sid, code)

RowIds(code) ==
    {enrollments[i].student_id : i \in RowsOfCourse(enrollments, code)}

----------------------------------------------------------------------------
(* C1: in every reachable state every course has |enrolled| <= capacity, for
   every capacity add_course accepts. *)
C1_EnrolledWithinCapacity ==
    \A c \in DOMAIN courses :
        Cardinality(courses[c].enrolled) <= courses[c].capacity

(* C2: in a process that started with no enrollments, after any sequence of
   enroll calls that succeeded or were rejected, interleaved with the other
   handlers, the size of each course's enrolled equals the number of
   enrollment rows of that course.  (The call that ends in an exception is
   C3's.) *)
C2_EnrolledCountIsRowCount ==
    (sessionFresh /\ out # "AttributeError") =>
        \A c \in DOMAIN courses :
            Cardinality(courses[c].enrolled)
                = Cardinality(RowsOfCourse(enrollments, c))

\* one student enrolled in a course of capacity 1, the other just turned away
C2_Witness ==
    /\ sessionFresh
    /\ out = "Course full."
    /\ \E c \in DOMAIN courses :
          /\ courses[c].capacity = 1
          /\ Cardinality(courses[c].enrolled) = 1
          /\ Cardinality(RowsOfCourse(enrollments, c)) = 1

(* C3: over the whole lifecycle (enroll, save, exit, restart and load, more
   enroll calls) each course's enrolled holds exactly the student ids that
   have an enrollment row for the course. *)
C3_EnrolledIsRowIds ==
    \A c \in DOMAIN courses : courses[c].enrolled = RowIds(c)

(* C4: an enroll call that meets any one of the four rejection conditions
   prints a message and changes none of the students, the courses, the
   enrollment rows, the files and the activity log. *)
C4_RejectedEnrollChangesNothing ==
    [][\A sid \in StudentIds, code \in CourseCodes :
          (EnrollStudent(sid, code) /\ Rejected(sid, code)) =>
              /\ UNCHANGED <<pc, mem, disk, log>>
              /\ out' \in {"Invalid student or course.", "Course full.",
                           "Already enrolled.", "Missing prerequisite."}]_vars

\* the only student asked for the only course, which they lack the prerequisite of
C4_Witness ==
    /\ out = "Missing prerequisite."
    /\ StudentKeys(students) = {1}
    /\ DOMAIN courses = {"A"}
    /\ ~AtCapacity("A") /\ ~HasRow(1, "A") /\ LacksPrerequisite(1, "A")

(* C5: enroll reports the first rejection condition that holds, in the order
   NotFound, CourseFull, AlreadyEnrolled, MissingPrerequisite. *)
C5_FirstFailingCheckWins ==
    [][\A sid \in StudentIds, code \in CourseCodes :
          EnrollStudent(sid, code) =>
              IF Unknown(sid, code) THEN out' = "Invalid student or course."
              ELSE IF AtCapacity(code) THEN out' = "Course full."
              ELSE IF HasRow(sid, code) THEN out' = "Already enrolled."
              ELSE IF LacksPrerequisite(sid, code) THEN out' = "Missing prerequisite."
              ELSE TRUE]_vars

\* the only student, already enrolled in the only course, which is full, was
\* told the course is full
C5_Witness ==
    /\ out = "Course full."
    /\ StudentKeys(students) = {1}
    /\ DOMAIN courses = {"A"}
    /\ HasRow(1, "A") /\ AtCapacity("A")

(* C6: for an existing student and an existing course that is not full, with
   no row for the pair, enroll is rejected with MissingPrerequisite exactly
   when a prerequisite has no row for the student (a row with grade None
   counts); otherwise it succeeds: it appends one row with grade None, adds
   the student to enrolled and logs. *)
C6_PrerequisiteDecidesEnroll ==
    [][\A sid \in StudentIds, code \in CourseCodes :
          (/\ EnrollStudent(sid, code)
           /\ ~Unknown(sid, code) /\ ~AtCapacity(code) /\ ~HasRow(sid, code)) =>
              IF LacksPrerequisite(sid, code)
              THEN out' = "Missing prerequisite." /\ UNCHANGED mem
              ELSE /\ out' = ""
                   /\ enrollments' = Append(enrollments, NewRow(sid, code))
                   /\ courses'[code].enrolled = courses[code].enrolled \cup {sid}
                   /\ logLines' = logLines + 1]_vars

(* C7: the enrollment collection never holds two rows for one (student_id,
   course_code) pair, a save followed by a restart and load included. *)
C7_OneRowPerPair ==
    \A sid \in StudentIds, code \in CourseCodes :
        Cardinality(RowsOf(enrollments, sid, code)) <= 1

\* rows read back by a new process (only a load leaves enrolled a list)
C7_Witness ==
    /\ pc = "menu"
    /\ Len(enrollments) >= 1
    /\ \E c \in DOMAIN courses : courses[c].shape = "list"

(* C8: every enrollment row names a student of the students collection and a
   course of the courses collection, also after the three loads of a new
   process. *)
C8_RowsReferenceStudentAndCourse ==
    \A i \in DOMAIN enrollments :
        /\ enrollments[i].student_id \in StudentKeys(students)
        /\ enrollments[i].course_code \in DOMAIN courses

(* C9: record_grade on a pair that has a row sets that row's grade to the
   value given, also when the row already had another grade, and adds and
   removes no row: the pair still has one row. *)
C9_RecordGradeOverwrites ==
    [][\A sid \in StudentIds, code \in CourseCodes, grade \in Grades :
          (RecordGrade(sid, code, grade) /\ HasRow(sid, code)) =>
              /\ Len(enrollments') = Len(enrollments)
              /\ Cardinality(RowsOf(enrollments', sid, code)) = 1
              /\ \A i \in RowsOf(enrollments', sid, code) :
                    enrollments'[i].grade = grade]_vars

\* the last call replaced a grade by a different one
C9_Witness ==
    /\ logLast.op = "Updated grade"
    /\ logLast.prev # None
    /\ \E i \in RowsOf(enrollments, logLast.sid, logLast.code) :
          enrollments[i].grade # None /\ enrollments[i].grade # logLast.prev

(* C10: a grade once set is never None again: no handler of a running
   process unsets it, save_enrollments writes it as text that is not empty,
   and a new process reads that text back as a grade; 0 included. *)
C10_GradeNeverUnset ==
    [][/\ pc = "menu" =>
            \A i \in DOMAIN enrollments :
                enrollments[i].grade # None =>
                    /\ i \in DOMAIN enrollments'
                    /\ enrollments'[i].student_id = enrollments[i].student_id
                    /\ enrollments'[i].course_code = enrollments[i].course_code
                    /\ enrollments'[i].grade # None
       /\ (pc = "menu" /\ fEnrollments' # fEnrollments /\ fEnrollments' # EmptiedCsv) =>
            \A i \in DOMAIN enrollments :
                enrollments[i].grade # None =>
                    /\ i \in DOMAIN fEnrollments'.rows
                    /\ fEnrollments'.rows[i].grade # EmptyStr
       /\ pc = "terminated" =>
            \A i \in DOMAIN fEnrollments.rows :
                fEnrollments.rows[i].grade # EmptyStr =>
                    /\ i \in DOMAIN enrollments'
                    /\ enrollments'[i].course_code = fEnrollments.rows[i].course_code
                    /\ enrollments'[i].grade # None]_vars

\* a new process has read back a grade of 0
C10_Witness ==
    /\ pc = "menu"
    /\ \E c \in DOMAIN courses : courses[c].shape = "list"
    /\ \E i \in DOMAIN enrollments :
          /\ enrollments[i].grade = 0
          /\ i \in DOMAIN fEnrollments.rows
          /\ fEnrollments.rows[i].grade = Str(0)

----------------------------------------------------------------------------
(* What the files hold, read the way a new process reads them *)

\* two course collections with the same keys and the same field values, the
\* members of enrolled compared whatever Python type holds them
SameCourses(a, b) ==
    /\ DOMAIN a = DOMAIN b
    /\ \A c \in DOMAIN a :
          /\ a[c].title = b[c].title
          /\ a[c].credits = b[c].credits
          /\ a[c].capacity = b[c].capacity
          /\ a[c].prereqs = b[c].prereqs
          /\ a[c].enrolled = b[c].enrolled

\* the persisted collections equal the collections in memory
Persisted ==
    /\ fStudents.exists /\ fCourses.exists /\ fCourses.valid /\ fEnrollments.exists
    /\ LoadStudents(fStudents) = students
    /\ SameCourses(LoadCourses(fCourses), courses)
    /\ LoadEnrollments(fEnrollments) = enrollments

SavedLine == "Saved and backed up data"

\* this step is a save_all that returned
SaveReturned ==
    pc = "menu" /\ logLines' = logLines + 1 /\ logLast'.op = SavedLine

(* C11: save_all followed by the loads of a new process gives back the
   collections that were saved: the same students, the same courses with
   each enrolled a set of the same members, the same enrollment rows with
   the same grades. *)
C11_SaveLoadRoundTrip ==
    [][(pc = "terminated" /\ out = "") =>
          /\ students' = students
          /\ courses' = courses
          /\ enrollments' = enrollments]_vars

(* C12: the process that ends through the Exit choice has run save_all to
   its end as its last action, and then the files hold the collections in
   memory; the Save choice writes the three collections too. *)
C12_ExitAndSavePersistAll ==
    [][/\ (pc = "menu" /\ pc' = "terminated" /\ out' = "") =>
              SaveReturned /\ Persisted'
       /\ SaveReturned => Persisted']_vars

\* ended through Exit with an enrollment row in memory and on disk
C12_Witness ==
    /\ pc = "terminated"
    /\ out = ""
    /\ enrollments # <<>>
    /\ Persisted

(* C14: when save_all (and so save_courses) has returned, every course's
   enrolled is a set with the members it had before, and nothing else of
   the courses has changed. *)
C14_SaveLeavesEnrolledASet ==
    [][SaveReturned =>
          /\ SameCourses(courses', courses)
          /\ \A c \in DOMAIN courses' : courses'[c].shape = "set"]_vars

\* an enroll after a save in the same process: the student is in enrolled and
\* in the rows, and not yet in the file
C14_Witness ==
    /\ logLast.op = "Enrolled"
    /\ fCourses.exists /\ fCourses.valid
    /\ logLast.code \in DOMAIN fCourses.data
    /\ logLast.sid \notin fCourses.data[logLast.code].enrolled
    /\ logLast.sid \in courses[logLast.code].enrolled
    /\ HasRow(logLast.sid, logLast.code)

(* C17: record_grade on a pair that has a row changes that row's grade and
   adds one log record, and nothing else: students, courses, every enrolled
   and every other row stay; on a pair with no row it prints NotFound and
   changes nothing, the log included. *)
C17_RecordGradeFrame ==
    [][\A sid \in StudentIds, code \in CourseCodes, grade \in Grades :
          RecordGrade(sid, code, grade) =>
              IF HasRow(sid, code)
              THEN /\ UNCHANGED <<pc, students, courses, disk>>
                   /\ logLines' = logLines + 1
                   /\ DOMAIN enrollments' = DOMAIN enrollments
                   /\ \A i \in DOMAIN enrollments :
                         /\ enrollments'[i].student_id = enrollments[i].student_id
                         /\ enrollments'[i].course_code = enrollments[i].course_code
                         /\ i \notin RowsOf(enrollments, sid, code) =>
                                enrollments'[i].grade = enrollments[i].grade
              ELSE /\ UNCHANGED <<pc, mem, disk, log>>
                   /\ out' = "Enrollment not found."]_vars

\* a grade was recorded, and then a call for a pair with no row was refused
C17_Witness ==
    /\ logLast.op = "Updated grade"
    /\ out = "Enrollment not found."
    /\ \E i \in DOMAIN enrollments : enrollments[i].grade # None

(* C13: add_student with an id that is a key of students, and add_course
   with a code that is a key of courses, print AlreadyExists and change
   nothing: the stored record keeps its fields, and no log record is added. *)
C13_DuplicateAddChangesNothing ==
    [][/\ \A sid \in StudentKeys(students) \cap StudentIds :
             (\E name \in Names, year \in Years, gpa \in SessionGpas :
                  AddStudent(sid, name, year, gpa)) =>
                 /\ UNCHANGED <<pc, mem, disk, log>>
                 /\ out' = "Student already exists."
       /\ \A code \in DOMAIN courses \cap CourseCodes :
             (\E title \in Titles, credits \in Credits,
                 cap \in SessionCapacities, prereqs \in SessionPrereqSets :
                  AddCourse(code, title, credits, cap, prereqs)) =>
                 /\ UNCHANGED <<pc, mem, disk, log>>
                 /\ out' = "Course already exists."]_vars

\* a second add_student for a stored id was refused, files written before it
C13_Witness ==
    /\ out = "Student already exists."
    /\ students # <<>>
    /\ fStudents.exists

\* the codes reached from code by following prerequisites through the courses
\* that exist, in at most n further steps
RECURSIVE PrereqClosure(_, _)
PrereqClosure(S, n) ==
    IF n = 0 THEN S
    ELSE PrereqClosure(S \cup UNION {courses[d].prereqs : d \in S \cap DOMAIN courses},
                       n - 1)

\* code requires itself, directly or through other courses
OnPrereqCycle(code) ==
    code \in PrereqClosure(courses[code].prereqs, Cardinality(CourseCodes))

(* C19: in a process that started with no enrollments, a student has a row
   for a course only if they have a row for each of its prerequisites; a
   course that requires itself, directly or through a cycle, has no row and
   no enrolled member. *)
C19_RowsFollowPrerequisites ==
    sessionFresh =>
        /\ \A i \in DOMAIN enrollments :
              enrollments[i].course_code \in DOMAIN courses =>
                  \A pre \in courses[enrollments[i].course_code].prereqs :
                      HasRow(enrollments[i].student_id, pre)
        /\ \A c \in DOMAIN courses :
              OnPrereqCycle(c) => RowIds(c) = {} /\ courses[c].enrolled = {}

\* a student enrolled in a course after enrolling in its prerequisite
C19_Witness ==
    \E i \in DOMAIN enrollments :
        /\ enrollments[i].course_code \in DOMAIN courses
        /\ courses[enrollments[i].course_code].prereqs # {}
        /\ enrollments[i].student_id \in courses[enrollments[i].course_code].enrolled

\* the writes of save_all that come after the one named
LaterWrites(fail) ==
    CASE fail = "students" -> {"backup", "courses", "enrollments"}
      [] fail = "backup" -> {"courses", "enrollments"}
      [] fail = "courses" -> {"enrollments"}
      [] OTHER -> {}

(* C16: save_all writes students, then courses, then enrollments, and logs
   only when the three are written.  When a write raises, the exception
   leaves save_all: the files of the later writes keep what they held, the
   files of the earlier writes hold the collections in memory, and no
   'saved' record is logged. *)
C16_SaveAllOrderAndFailure ==
    [][/\ SaveReturned => Persisted'
       /\ \A fail \in FailPoints \ {"none"}, how \in Hows :
             (out' = "OSError" /\ SaveAllFails(fail, how)) =>
                 /\ pc' = "terminated"
                 /\ UNCHANGED <<log, students, enrollments>>
                 /\ "backup" \in LaterWrites(fail) => UNCHANGED fBackup
                 /\ "courses" \in LaterWrites(fail) => UNCHANGED fCourses
                 /\ "enrollments" \in LaterWrites(fail) => UNCHANGED fEnrollments
                 /\ fail # "students" => LoadStudents(fStudents') = students
                 /\ fail \in {"courses", "enrollments"} => fBackup' = fStudents'
                 /\ fail = "enrollments" =>
                        /\ fCourses'.exists /\ fCourses'.valid
                        /\ SameCourses(LoadCourses(fCourses'), courses)]_vars

\* the write of courses.json raised after an earlier save: students.csv holds
\* the new student, the other two files what the earlier save wrote
C16_Witness ==
    /\ out = "OSError"
    /\ logLast.op = "Added student"
    /\ LoadStudents(fStudents) = students
    /\ fBackup = fStudents
    /\ fCourses.exists /\ fCourses.valid /\ fEnrollments.exists
    /\ courses # <<>>

(* C20: when the write of courses.json raises inside save_courses, every
   course's enrolled that was a set in memory is still a set, with the same
   members. *)
C20_FailedSaveKeepsEnrolledASet ==
    [][(pc = "menu" /\ out' = "OSError") =>
          /\ SameCourses(courses', courses)
          /\ \A c \in DOMAIN courses :
                courses[c].shape = "set" => courses'[c].shape = "set"]_vars

\* the place of the student with this id in students
PlaceOf(sid) == CHOOSE i \in DOMAIN students : students[i].id = sid

\* a comes before b in the report: higher gpa, or the same gpa and added earlier
RanksBefore(a, b) ==
    \/ a.gpa > b.gpa
    \/ a.gpa = b.gpa /\ PlaceOf(a.id) < PlaceOf(b.id)

(* C18: "Top N students" with n >= 0 lists the first min(n, number of
   students) students of the order by descending gpa in which students of
   equal gpa keep the order in which they were added. *)
C18_TopStudentsStableDescending ==
    [][\A n \in TopNs :
          (n >= 0 /\ TopStudents(n)) =>
              /\ Len(shown') = IF n < Len(students) THEN n ELSE Len(students)
              /\ \A i \in DOMAIN shown' :
                    \E j \in DOMAIN students : shown'[i] = students[j]
              /\ \A i, j \in DOMAIN shown' :
                    i < j => RanksBefore(shown'[i], shown'[j])
              /\ \A j \in DOMAIN students :
                    (\A i \in DOMAIN shown' : shown'[i] # students[j]) =>
                        \A i \in DOMAIN shown' : RanksBefore(shown'[i], students[j])]_vars

\* students 1 and 2 with gpa 3.9 and student 3 with 3.5, added in this order:
\* the report for n = 2 lists 1 then 2
C18_Witness ==
    /\ Len(students) = 3
    /\ students[1].id = 1 /\ students[1].gpa = 39
    /\ students[2].id = 2 /\ students[2].gpa = 39
    /\ students[3].id = 3 /\ students[3].gpa = 35
    /\ Len(shown) = 2
    /\ shown[1].id = 1 /\ shown[2].id = 2

\* courses.json holds a mapping from codes to course objects
IsCoursesDocument(file) ==
    /\ file.exists /\ file.valid
    /\ IsObject(file.data)
    /\ \A c \in DOMAIN file.data :
          /\ IsObject(file.data[c])
          /\ {"title", "credits", "capacity", "prereqs"} \subseteq DOMAIN file.data[c]

(* C15: load_courses takes all of the file or nothing: when courses.json is
   absent, is no JSON, or is JSON that is not a mapping from codes to course
   objects, courses is the empty mapping after the load. *)
C15_LoadCoursesAllOrNothing ==
    [][(pc = "terminated" /\ pc' = "menu") =>
          (IsCoursesDocument(fCourses) \/ courses' = <<>>)]_vars

====
